---- MODULE Spec2Model ----
(***************************************************************************)
(* Training-loop orchestration of the two training scripts                 *)
(*   src/train/train.py                       (baseline loop)              *)
(*   src/train/train with cutmix and sam.py   (CutMix + SAM loop)          *)
(*                                                                         *)
(* Spec      the epoch loop of train(): training pass, scheduler step,     *)
(*           validation pass, checkpoint policy, logging.                  *)
(* SpecBBox  rand_bbox and the lam / loss blend computed from its box.     *)
(* SpecStep  the training batch loop of the CutMix + SAM script: closure,  *)
(*           backward, SAM first_step / second_step or the plain step.     *)
(* SpecVal   one validation pass of either script: per-batch loss and      *)
(*           match counts, then the epoch's accuracy and mean loss.        *)
(***************************************************************************)
EXTENDS Integers, Sequences, FiniteSets, TLC

\* ------------------------------------------------------------------ bounds
MaxEpochs == 4          \* largest args.epochs explored
NumTrainBatches == 2    \* len(train_loader)
NumValBatches == 2      \* len(val_loader)
MaxDim == 3             \* largest image side given to rand_bbox
LamDen == 2             \* lam is drawn from {0/LamDen, ..., LamDen/LamDen}
MaxCrit == 2            \* largest criterion value explored
BatchSize == 2          \* samples per training batch
ImgW == 1               \* inputs.size()[2]
ImgH == 2               \* inputs.size()[3]
ProbDen == 2            \* r and args.cutmix_prob are multiples of 1/ProbDen
ParamMod == 7           \* the parameter vector is a residue mod ParamMod
Rho == 1                \* SAM neighbourhood radius
MaxValSet == 3          \* largest len(val_set) and args.valid_batch_size

\* Per-epoch validation aggregates the model can produce: macro-F1 in tenths,
\* mean validation loss in whole units.
F1Values == {0, 3, 5, 6, 7}
ValLossValues == {1, 2}

Scripts == {"train", "cutmix_sam"}

\* np.inf : larger than every validation loss
Inf == 1000000

NoFile == 0 - 1

VARIABLES
    script,         \* which of the two training scripts runs
    epochs,         \* args.epochs
    epoch,          \* loop variable of `for epoch in range(args.epochs)`
    pc,             \* position inside train()
    idx,            \* index of the next training batch of this epoch
    vidx,           \* number of validation batches consumed this epoch
    model,          \* model parameters: number of optimizer updates applied
    sched_steps,    \* number of scheduler.step() calls
    epoch_f1,       \* this epoch's validation F1 (epoch_f1 / val_f1_score)
    val_loss,       \* this epoch's validation loss
    best_f1_score,  \* best_f1_score / best_val_f1_score
    best_val_loss,  \* best_val_loss
    best_pth,       \* parameters held by best.pth, NoFile while absent
    last_pth,       \* parameters held by last.pth, NoFile while absent
    confusion,      \* epoch whose predictions the confusion matrix shows
    saves,          \* every torch.save so far, in order: [file, epoch]
    log             \* one entry per finished epoch (log.log line / [Val] print)

orchVars == <<script, epochs, epoch, pc, idx, vidx, model, sched_steps, epoch_f1,
              val_loss, best_f1_score, best_val_loss, best_pth, last_pth,
              confusion, saves, log>>

VARIABLES
    bb_pc,          \* "start", "boxed" (rand_bbox returned), "blended"
    bb_size,        \* inputs.size(): <<N, C, W, H>>
    bb_lam,         \* numerator of the sampled lam (over LamDen)
    bb_box,         \* <<bbx1, bby1, bbx2, bby2>>
    bb_crit,        \* <<criterion(outs, target_a), criterion(outs, target_b)>>
    bb_lam2,        \* the recomputed lam: [num, den]
    bb_loss         \* the blended loss: [num, den]

bboxVars == <<bb_pc, bb_size, bb_lam, bb_box, bb_crit, bb_lam2, bb_loss>>

VARIABLES
    optimizer,      \* args.optimizer: "SAM" or a torch.optim name
    beta,           \* args.beta
    cutmix_prob,    \* args.cutmix_prob, numerator over ProbDen
    spc,            \* position inside the training batch loop
    bidx,           \* idx of enumerate(train_loader)
    inputs,         \* the batch image tensor: inputs[n][x][y] = sample the pixel came from
    labels,         \* the batch label vector
    r,              \* r = np.random.rand(1), numerator over ProbDen
    loss,           \* the last value of `loss`: [num, den]
    train_loss,     \* running sum of loss.item(): [num, den]
    w,              \* model parameters
    grad,           \* accumulated .grad of the parameters
    sam_old_p,      \* SAM's saved pre-perturbation parameters
    w0,             \* parameters when the batch started
    ops,            \* optimizer / closure / backward calls of this batch, in order
    calls           \* one record per closure() invocation of this batch

stepVars == <<optimizer, beta, cutmix_prob, spc, bidx, inputs, labels, r, loss,
              train_loss, w, grad, sam_old_p, w0, ops, calls>>

VARIABLES
    val_n,              \* len(val_set)
    valid_batch_size,   \* args.valid_batch_size
    val_correct,        \* per validation sample: does argmax(model(x)) equal its label
    vpc,                \* "loop" or "done"
    vpos,               \* validation batches consumed
    val_loss_items,     \* val_loss_items
    val_acc_items,      \* val_acc_items
    val_acc,            \* val_acc: [num, den]
    val_mean_loss       \* val_loss of the pass: [num, den]

valVars == <<val_n, valid_batch_size, val_correct, vpc, vpos, val_loss_items,
             val_acc_items, val_acc, val_mean_loss>>

vars == <<orchVars, bboxVars, stepVars, valVars>>

\* ---------------------------------------------------------------- rand_bbox

\* floor(sqrt(n))
Isqrt(n) == CHOOSE k \in 0..n : k * k <= n /\ (k + 1) * (k + 1) > n

\* np.clip(v, lo, hi)
NoClip(v, lo, hi) == v
Clip(v, lo, hi) == IF v < lo THEN lo ELSE IF v > hi THEN hi ELSE v

\* np.int(side * np.sqrt(1. - lam)) for lam = lamK / LamDen:
\* floor(side * sqrt(q)) = floor(sqrt(floor(side^2 * q)))
CutLen(side, lamK) == Isqrt((side * side * (LamDen - lamK)) \div LamDen)

\* rand_bbox(size, lam) with the two np.random.randint draws cx, cy
RandBBox(size, lamK, cx, cy) ==
    LET W == size[3]
        H == size[4]
        cut_w == CutLen(W, lamK)
        cut_h == CutLen(H, lamK)
        bbx1 == 0
        bby1 == Clip(cy - cut_h \div 2, 0, H)
        bbx2 == W
        bby2 == Clip(cy + cut_h \div 2, 0, H)
    IN <<bbx1, bby1, bbx2, bby2>>

BoxArea(box) == (box[3] - box[1]) * (box[4] - box[2])

\* lam = 1 - ((bbx2 - bbx1) * (bby2 - bby1) / (size[-1] * size[-2]))
RecomputeLamNoComplement(box, size) ==
    [num |-> BoxArea(box), den |-> size[4] * size[3]]
RecomputeLam(box, size) ==
    [num |-> size[4] * size[3] - BoxArea(box), den |-> size[4] * size[3]]

\* criterion(outs, target_a) * lam + criterion(outs, target_b) * (1. - lam)
BlendLoss(crit_a, crit_b, lam) ==
    [num |-> crit_a * lam.num + crit_b * (lam.den - lam.num), den |-> lam.den]

\* criterion(outs, labels), on the same scale
PlainLoss(crit, den) == [num |-> crit * den, den |-> den]

IdleBBox ==
    /\ bb_pc = "idle"
    /\ bb_size = <<1, 1, 1, 1>>
    /\ bb_lam = 0
    /\ bb_box = <<0, 0, 0, 0>>
    /\ bb_crit = <<0, 0>>
    /\ bb_lam2 = [num |-> 0, den |-> 1]
    /\ bb_loss = [num |-> 0, den |-> 1]

InitBBox ==
    /\ bb_pc = "start"
    /\ \E W \in 1..MaxDim, H \in 1..MaxDim : bb_size = <<1, 1, W, H>>
    /\ bb_lam \in 0..LamDen
    /\ bb_box = <<0, 0, 0, 0>>
    /\ bb_crit = <<0, 0>>
    /\ bb_lam2 = [num |-> 0, den |-> 1]
    /\ bb_loss = [num |-> 0, den |-> 1]

\* bbx1, bby1, bbx2, bby2 = rand_bbox(inputs.size(), lam)
BBoxCall ==
    /\ bb_pc = "start"
    /\ \E cx \in 0..(bb_size[3] - 1), cy \in 0..(bb_size[4] - 1) :
          bb_box' = RandBBox(bb_size, bb_lam, cx, cy)
    /\ bb_pc' = "boxed"
    /\ UNCHANGED <<bb_size, bb_lam, bb_crit, bb_lam2, bb_loss>>

\* the lam recomputed from the box, and the loss blended with it
BBoxBlend ==
    /\ bb_pc = "boxed"
    /\ \E a \in 0..MaxCrit, b \in 0..MaxCrit :
          /\ bb_crit' = <<a, b>>
          /\ bb_lam2' = RecomputeLam(bb_box, bb_size)
          /\ bb_loss' = BlendLoss(a, b, RecomputeLam(bb_box, bb_size))
    /\ bb_pc' = "blended"
    /\ UNCHANGED <<bb_size, bb_lam, bb_box>>

NextBBox ==
    \/ BBoxCall /\ UNCHANGED <<orchVars, stepVars, valVars>>
    \/ BBoxBlend /\ UNCHANGED <<orchVars, stepVars, valVars>>

\* ------------------------------------------------- training batch loop

Optimizers == {"SAM", "SGD"}
BetaValues == {0, 1}

Samples == 1..BatchSize

\* torch.randperm(inputs.size()[0])
Perms == {p \in [Samples -> Samples] : \A a, b \in Samples : p[a] = p[b] => a = b}

InputSize == <<BatchSize, 1, ImgW, ImgH>>

\* a batch as the loader yields it: every pixel of image n is its own
FreshInputs == [n \in Samples |-> [x \in 1..ImgW |-> [y \in 1..ImgH |-> n]]]
FreshLabels == [n \in Samples |-> n]

RECURSIVE SumTo(_, _)
SumTo(f, n) == IF n = 0 THEN 0 ELSE f[n] + SumTo(f, n - 1)

\* model(inputs) and criterion(outs, target): a deterministic classifier of
\* the parameters and the pixels, and the number of samples it gets wrong
PixelSum(img) == SumTo([x \in 1..ImgW |-> SumTo([y \in 1..ImgH |-> img[x][y] * y], ImgH)], ImgW)
Predict(w_, img) == ((w_ + PixelSum(img)) % BatchSize) + 1
Criterion(w_, x, target) == Cardinality({n \in Samples : Predict(w_, x[n]) # target[n]})

\* loss.backward(): the gradient this loss adds to .grad
GradOf(l) == l.num + 1

\* the base optimizer's update rule
BaseStep(w_, g) == (w_ - g) % ParamMod

Sign(g) == IF g > 0 THEN 1 ELSE IF g < 0 THEN -1 ELSE 0

\* SAM.first_step: climb to w + rho * grad / ||grad||, remember w
SAMFirstStep(w_, g, zero_grad) ==
    [w |-> (w_ + Rho * Sign(g)) % ParamMod,
     old_p |-> w_,
     grad |-> IF zero_grad THEN 0 ELSE g]

\* SAM.second_step: back to the remembered w, then the base update
SAMSecondStep(old_p, g, zero_grad) ==
    [w |-> BaseStep(old_p, g),
     grad |-> IF zero_grad THEN 0 ELSE g]

\* `isinstance(optimizer, opt.SAM)`
IsSAMNever(o) == FALSE
IsSAM(o) == o = "SAM"

\* `optimizer.first_step(zero_grad=True)`, `optimizer.second_step(zero_grad=True)`
FirstStepKeepsGrad == FALSE
FirstStepZeroGrad == TRUE
SecondStepZeroGrad == TRUE

\* `if args.beta > 0 and r < args.cutmix_prob`
CutMixTriggersInclusive(b, rr, p) == b > 0 /\ rr <= p
CutMixTriggers(b, rr, p) == b > 0 /\ rr < p

\* the r closure() reads: the enclosing loop body's r, drawn once per batch
ClosureRFresh(rOuter) == 0..(ProbDen - 1)
ClosureR(rOuter) == {rOuter}

\* inputs[:, :, bbx1:bbx2, bby1:bby2] = inputs[rand_index, :, bbx1:bbx2, bby1:bby2]
MixInputs(x, rand_index, box) ==
    [n \in Samples |-> [i \in 1..ImgW |-> [j \in 1..ImgH |->
        IF /\ box[1] <= i - 1 /\ i - 1 < box[3]
           /\ box[2] <= j - 1 /\ j - 1 < box[4]
          THEN x[rand_index[n]][i][j]
          ELSE x[n][i][j]]]]

\* every box rand_bbox(inputs.size(), lam) can return over the Beta draw lam
\* and the two randint draws
BoxDraws == {RandBBox(InputSize, lamK, cx, cy) :
                lamK \in 0..LamDen, cx \in 0..(ImgW - 1), cy \in 0..(ImgH - 1)}

\* closure() mixing a clone of the batch and leaving the batch itself alone
ClosureMixedOnClone(w_, x, y, rand_index, box) ==
    LET target_a == y
        target_b == [n \in Samples |-> y[rand_index[n]]]
        mixed == MixInputs(x, rand_index, box)
        lam == RecomputeLam(box, InputSize)
    IN [mixed |-> TRUE,
        draws |-> <<"beta", "randperm", "randint", "randint">>,
        rand_index |-> rand_index,
        box |-> box,
        lam |-> lam,
        w |-> w_,
        inputs |-> x,
        loss |-> BlendLoss(Criterion(w_, mixed, target_a),
                           Criterion(w_, mixed, target_b), lam)]

\* the CutMix branch of closure(), for a drawn permutation and box
ClosureMixed(w_, x, y, rand_index, box) ==
    LET target_a == y
        target_b == [n \in Samples |-> y[rand_index[n]]]
        mixed == MixInputs(x, rand_index, box)
        lam == RecomputeLam(box, InputSize)
    IN [mixed |-> TRUE,
        draws |-> <<"beta", "randperm", "randint", "randint">>,
        rand_index |-> rand_index,
        box |-> box,
        lam |-> lam,
        w |-> w_,
        inputs |-> mixed,
        loss |-> BlendLoss(Criterion(w_, mixed, target_a),
                           Criterion(w_, mixed, target_b), lam)]

\* the else branch of closure()
ClosureUnmixed(w_, x, y) ==
    [mixed |-> FALSE,
     draws |-> <<>>,
     rand_index |-> <<>>,
     box |-> <<>>,
     lam |-> [num |-> ImgW * ImgH, den |-> ImgW * ImgH],
     w |-> w_,
     inputs |-> x,
     loss |-> PlainLoss(Criterion(w_, x, y), ImgW * ImgH)]

ZeroLoss == [num |-> 0, den |-> ImgW * ImgH]

IdleStep ==
    /\ optimizer = "SGD"
    /\ beta = 0
    /\ cutmix_prob = 0
    /\ spc = "idle"
    /\ bidx = 0
    /\ inputs = FreshInputs
    /\ labels = FreshLabels
    /\ r = 0
    /\ loss = ZeroLoss
    /\ train_loss = ZeroLoss
    /\ w = 0
    /\ grad = 0
    /\ sam_old_p = 0
    /\ w0 = 0
    /\ ops = <<>>
    /\ calls = <<>>

InitStep ==
    /\ optimizer \in Optimizers
    /\ beta \in BetaValues
    /\ cutmix_prob \in 0..ProbDen
    /\ spc = "start"
    /\ bidx = 0
    /\ inputs = FreshInputs
    /\ labels = FreshLabels
    /\ r = 0
    /\ loss = ZeroLoss
    /\ train_loss = ZeroLoss
    /\ w = 0
    /\ grad = 0
    /\ sam_old_p = 0
    /\ w0 = 0
    /\ ops = <<>>
    /\ calls = <<>>

\* inputs, labels = train_batch; optimizer.zero_grad(); r = np.random.rand(1)
BatchStart ==
    /\ spc = "start"
    /\ inputs' = FreshInputs
    /\ labels' = FreshLabels
    /\ grad' = 0
    /\ r' \in 0..(ProbDen - 1)
    /\ w0' = w
    /\ ops' = <<"zero_grad">>
    /\ calls' = <<>>
    /\ spc' = "closureA"
    /\ UNCHANGED <<optimizer, beta, cutmix_prob, bidx, loss, train_loss, w, sam_old_p>>

\* loss = closure(): phase A, and under SAM phase B at the perturbed parameters
Closure ==
    /\ spc \in {"closureA", "closureB"}
    /\ \E rr \in ClosureR(r) :
          IF CutMixTriggers(beta, rr, cutmix_prob)
            THEN \E rand_index \in Perms, box \in BoxDraws :
                    \E c \in {ClosureMixed(w, inputs, labels, rand_index, box)} :
                       /\ calls' = Append(calls, [c EXCEPT !.inputs = <<>>])
                       /\ inputs' = c.inputs
                       /\ loss' = c.loss
            ELSE \E c \in {ClosureUnmixed(w, inputs, labels)} :
                    /\ calls' = Append(calls, [c EXCEPT !.inputs = <<>>])
                    /\ inputs' = c.inputs
                    /\ loss' = c.loss
    /\ ops' = Append(ops, "closure")
    /\ spc' = IF spc = "closureA" THEN "backwardA" ELSE "backwardB"
    /\ UNCHANGED <<optimizer, beta, cutmix_prob, bidx, labels, r, train_loss, w,
                   grad, sam_old_p, w0>>

\* after the last batch the loop ends
NextBatchPc(i) == IF i + 1 < NumTrainBatches THEN "start" ELSE "end"

\* train_loss += loss.item()
AddLoss(total, l) == [num |-> total.num + l.num, den |-> total.den]

\* phase A's loss.backward(), then optimizer.first_step(zero_grad=True)
BackwardFirstStep ==
    /\ spc = "backwardA"
    /\ IsSAM(optimizer)
    /\ LET s == SAMFirstStep(w, grad + GradOf(loss), FirstStepZeroGrad)
       IN /\ w' = s.w
          /\ sam_old_p' = s.old_p
          /\ grad' = s.grad
    /\ ops' = ops \o <<"backward", "first_step">>
    /\ spc' = "closureB"
    /\ UNCHANGED <<optimizer, beta, cutmix_prob, bidx, inputs, labels, r, loss,
                   train_loss, w0, calls>>

\* phase B's loss.backward(), then optimizer.second_step(zero_grad=True) and
\* train_loss += loss.item()
BackwardSecondStep ==
    /\ spc = "backwardB"
    /\ LET s == SAMSecondStep(sam_old_p, grad + GradOf(loss), SecondStepZeroGrad)
       IN /\ w' = s.w
          /\ grad' = s.grad
    /\ ops' = ops \o <<"backward", "second_step">>
    /\ train_loss' = AddLoss(train_loss, loss)
    /\ bidx' = bidx + 1
    /\ spc' = NextBatchPc(bidx)
    /\ UNCHANGED <<optimizer, beta, cutmix_prob, inputs, labels, r, loss,
                   sam_old_p, w0, calls>>

\* loss.backward(), then optimizer.step() and train_loss += loss.item()
BackwardPlainStep ==
    /\ spc = "backwardA"
    /\ ~IsSAM(optimizer)
    /\ grad' = grad + GradOf(loss)
    /\ w' = BaseStep(w, grad + GradOf(loss))
    /\ ops' = ops \o <<"backward", "step">>
    /\ train_loss' = AddLoss(train_loss, loss)
    /\ bidx' = bidx + 1
    /\ spc' = NextBatchPc(bidx)
    /\ UNCHANGED <<optimizer, beta, cutmix_prob, inputs, labels, r, loss,
                   sam_old_p, w0, calls>>

\* train_loss = train_loss / len(train_loader)
EndPass ==
    /\ spc = "end"
    /\ train_loss' = [num |-> train_loss.num, den |-> train_loss.den * NumTrainBatches]
    /\ spc' = "passed"
    /\ UNCHANGED <<optimizer, beta, cutmix_prob, bidx, inputs, labels, r, loss, w,
                   grad, sam_old_p, w0, ops, calls>>

NextStep ==
    \/ BatchStart /\ UNCHANGED <<orchVars, bboxVars, valVars>>
    \/ Closure /\ UNCHANGED <<orchVars, bboxVars, valVars>>
    \/ BackwardFirstStep /\ UNCHANGED <<orchVars, bboxVars, valVars>>
    \/ BackwardSecondStep /\ UNCHANGED <<orchVars, bboxVars, valVars>>
    \/ BackwardPlainStep /\ UNCHANGED <<orchVars, bboxVars, valVars>>
    \/ EndPass /\ UNCHANGED <<orchVars, bboxVars, valVars>>

\* ------------------------------------------------------- validation pass

\* the val_loader's drop_last: True in train.py, the default False in the
\* CutMix + SAM script
DropLast(s) == s = "train"

\* len(val_loader)
LoaderLen(n, bs, drop) == IF drop THEN n \div bs ELSE (n + bs - 1) \div bs

\* the samples of batch k (from 0), in dataset order (shuffle=False)
BatchSamples(k, n, bs) == {i \in 1..n : k * bs < i /\ i <= (k + 1) * bs}

\* np.sum(items)
SeqSum(items) == SumTo(items, Len(items))

IdleVal ==
    /\ val_n = 1
    /\ valid_batch_size = 1
    /\ val_correct = <<FALSE>>
    /\ vpc = "idle"
    /\ vpos = 0
    /\ val_loss_items = <<>>
    /\ val_acc_items = <<>>
    /\ val_acc = [num |-> 0, den |-> 1]
    /\ val_mean_loss = [num |-> 0, den |-> 1]

InitVal ==
    /\ val_n \in 1..MaxValSet
    /\ valid_batch_size \in 1..MaxValSet
    /\ val_correct \in [1..val_n -> BOOLEAN]
    /\ vpc = "loop"
    /\ vpos = 0
    /\ val_loss_items = <<>>
    /\ val_acc_items = <<>>
    /\ val_acc = [num |-> 0, den |-> 1]
    /\ val_mean_loss = [num |-> 0, den |-> 1]

\* one val_batch: loss_item and acc_item appended
ValBatchItems ==
    /\ vpc = "loop"
    /\ vpos < LoaderLen(val_n, valid_batch_size, DropLast(script))
    /\ \E loss_item \in 0..MaxCrit :
          val_loss_items' = Append(val_loss_items, loss_item)
    /\ val_acc_items' = Append(val_acc_items,
          Cardinality({i \in BatchSamples(vpos, val_n, valid_batch_size) : val_correct[i]}))
    /\ vpos' = vpos + 1
    /\ UNCHANGED <<val_n, valid_batch_size, val_correct, vpc, val_acc, val_mean_loss>>

\* val_loss = np.sum(val_loss_items) / len(val_loader)
\* val_acc = np.sum(val_acc_items) / len(val_set)
ValAggregate ==
    /\ vpc = "loop"
    /\ vpos = LoaderLen(val_n, valid_batch_size, DropLast(script))
    /\ val_mean_loss' = [num |-> SeqSum(val_loss_items),
                         den |-> LoaderLen(val_n, valid_batch_size, DropLast(script))]
    /\ val_acc' = [num |-> SeqSum(val_acc_items), den |-> val_n]
    /\ vpc' = "done"
    /\ UNCHANGED <<val_n, valid_batch_size, val_correct, vpos, val_loss_items,
                   val_acc_items>>

NextVal ==
    \/ ValBatchItems /\ UNCHANGED <<orchVars, bboxVars, stepVars>>
    \/ ValAggregate /\ UNCHANGED <<orchVars, bboxVars, stepVars>>

\* ------------------------------------------------------------ epoch loop

\* `for epoch in range(args.epochs)`: is there an iteration after epoch ep
LoopContinuesOffByOne(ep, n) == ep + 1 <= n
LoopContinues(ep, n) == ep + 1 < n

\* `if epoch_f1 > best_f1_score`
IsNewBestOrEqual(f1, best) == f1 >= best
IsNewBest(f1, best) == f1 > best

\* `best_val_loss = min(best_val_loss, val_loss)`
MinLossLatest(best, cur) == cur
MinLoss(best, cur) == IF cur < best THEN cur ELSE best

InitOrch ==
    /\ script \in Scripts
    /\ epochs \in 0..MaxEpochs
    /\ epoch = 0
    /\ pc = IF LoopContinues(-1, epochs) THEN "train" ELSE "done"
    /\ idx = 0
    /\ vidx = 0
    /\ model = 0
    /\ sched_steps = 0
    /\ epoch_f1 = 0
    /\ val_loss = 0
    /\ best_f1_score = 0
    /\ best_val_loss = Inf
    /\ best_pth = NoFile
    /\ last_pth = NoFile
    /\ confusion = NoFile
    /\ saves = <<>>
    /\ log = <<>>

\* One iteration of the training batch loop: the batch is fully processed
\* (loss, backward, optimizer update) before the next one is requested.
TrainBatch ==
    /\ pc = "train"
    /\ idx < NumTrainBatches
    /\ model' = model + 1
    /\ idx' = idx + 1
    /\ UNCHANGED <<script, epochs, epoch, pc, vidx, sched_steps, epoch_f1, val_loss,
                   best_f1_score, best_val_loss, best_pth, last_pth, confusion,
                   saves, log>>

\* The batch loop is exhausted; scheduler.step(); validation starts.
SchedulerStep ==
    /\ pc = "train"
    /\ idx = NumTrainBatches
    /\ sched_steps' = sched_steps + 1
    /\ pc' = "val"
    /\ vidx' = 0
    /\ UNCHANGED <<script, epochs, epoch, idx, model, epoch_f1, val_loss,
                   best_f1_score, best_val_loss, best_pth, last_pth, confusion,
                   saves, log>>

\* One iteration of the validation batch loop (torch.no_grad, model.eval()).
ValBatch ==
    /\ pc = "val"
    /\ vidx < NumValBatches
    /\ vidx' = vidx + 1
    /\ UNCHANGED <<script, epochs, epoch, pc, idx, model, sched_steps, epoch_f1,
                   val_loss, best_f1_score, best_val_loss, best_pth, last_pth,
                   confusion, saves, log>>

\* End of the validation loop: the epoch aggregates and best_val_loss.
EpochMetrics ==
    /\ pc = "val"
    /\ vidx = NumValBatches
    /\ \E f \in F1Values, l \in ValLossValues :
          /\ epoch_f1' = f
          /\ val_loss' = l
          /\ best_val_loss' = MinLoss(best_val_loss, l)
    /\ pc' = "best"
    /\ UNCHANGED <<script, epochs, epoch, idx, vidx, model, sched_steps,
                   best_f1_score, best_pth, last_pth, confusion, saves, log>>

\* `if epoch_f1 > best_f1_score:` save best.pth, update the best, redraw
\* the confusion matrix.
BestCheckpoint ==
    /\ pc = "best"
    /\ IF IsNewBest(epoch_f1, best_f1_score)
         THEN /\ best_pth' = model
              /\ saves' = Append(saves, [file |-> "best", epoch |-> epoch])
              /\ best_f1_score' = epoch_f1
              /\ confusion' = epoch
         ELSE UNCHANGED <<best_pth, saves, best_f1_score, confusion>>
    /\ pc' = "last"
    /\ UNCHANGED <<script, epochs, epoch, idx, vidx, model, sched_steps, epoch_f1,
                   val_loss, best_val_loss, last_pth, log>>

\* `torch.save(model.module.state_dict(), f"{save_dir}/last.pth")`
LastCheckpoint ==
    /\ pc = "last"
    /\ last_pth' = model
    /\ saves' = Append(saves, [file |-> "last", epoch |-> epoch])
    /\ pc' = "log"
    /\ UNCHANGED <<script, epochs, epoch, idx, vidx, model, sched_steps, epoch_f1,
                   val_loss, best_f1_score, best_val_loss, best_pth, confusion, log>>

\* The epoch's report (log.log line and scalars / the [Val] print and scalars),
\* then the next iteration of the epoch loop or the end of train().
WriteLog ==
    /\ pc = "log"
    /\ log' = Append(log, [epoch |-> epoch, f1 |-> epoch_f1, val_loss |-> val_loss])
    /\ IF LoopContinues(epoch, epochs)
         THEN /\ epoch' = epoch + 1
              /\ pc' = "train"
              /\ idx' = 0
         ELSE /\ pc' = "done"
              /\ UNCHANGED <<epoch, idx>>
    /\ UNCHANGED <<script, epochs, vidx, model, sched_steps, epoch_f1, val_loss,
                   best_f1_score, best_val_loss, best_pth, last_pth, confusion,
                   saves>>

NextOrch ==
    \/ TrainBatch
    \/ SchedulerStep
    \/ ValBatch
    \/ EpochMetrics
    \/ BestCheckpoint
    \/ LastCheckpoint
    \/ WriteLog

\* ------------------------------------------------- checkpoint policy claims

RECURSIVE SeqMax(_, _)
\* max(0, s[1], ..., s[k]) 
SeqMax(s, k) == IF k = 0 THEN 0
                ELSE IF s[k] > SeqMax(s, k - 1) THEN s[k] ELSE SeqMax(s, k - 1)

F1Seq == [k \in 1..Len(log) |-> log[k].f1]
ValLossSeq == [k \in 1..Len(log) |-> log[k].val_loss]

\* epochs at which torch.save wrote the named checkpoint
SavedAt(file) == {saves[i].epoch : i \in {j \in 1..Len(saves) : saves[j].file = file}}
SaveCount(file) == Cardinality({j \in 1..Len(saves) : saves[j].file = file})

\* C1: over the finished epochs, best.pth was written at epoch k iff that
\* epoch's F1 is strictly greater than max(0, F1 of the earlier epochs),
\* whatever the validation losses were; last.pth was written at every epoch,
\* once; for F1 = [0.5, 0.3, 0.7, 0.6] best is written exactly at epochs 0
\* and 2 and last at epochs 0..3.
C1_BestIffStrictlyBetter ==
    /\ \A k \in 1..Len(log) :
          /\ ((k - 1) \in SavedAt("best")) <=> (F1Seq[k] > SeqMax(F1Seq, k - 1))
          /\ (k - 1) \in SavedAt("last")
    /\ SavedAt("best") \cup SavedAt("last") \subseteq 0..epoch
    /\ SaveCount("best") = Cardinality(SavedAt("best"))
    /\ SaveCount("last") = Cardinality(SavedAt("last"))
    /\ (Len(log) >= 4 /\ SubSeq(F1Seq, 1, 4) = <<5, 3, 7, 6>>) =>
          /\ SavedAt("best") \cap 0..3 = {0, 2}
          /\ SavedAt("last") \cap 0..3 = {0, 1, 2, 3}

\* The run of the example, with the best epoch 2 having a worse loss than
\* epoch 0 and best_val_loss already below it.
C1_Witness ==
    /\ pc = "done"
    /\ F1Seq = <<5, 3, 7, 6>>
    /\ ValLossSeq = <<1, 2, 2, 1>>
    /\ SavedAt("best") = {0, 2}
    /\ SavedAt("last") = {0, 1, 2, 3}

\* F1 and loss of the epochs whose checkpoint step / metrics step has run
F1Counted == {F1Seq[k] : k \in 1..Len(log)}
               \cup (IF pc \in {"last", "log"} THEN {epoch_f1} ELSE {})
LossCounted == {ValLossSeq[k] : k \in 1..Len(log)}
               \cup (IF pc \in {"best", "last", "log"} THEN {val_loss} ELSE {})

SetMax(S) == CHOOSE x \in S : \A y \in S : y <= x
SetMin(S) == CHOOSE x \in S : \A y \in S : x <= y

C2_BestValues ==
    /\ best_f1_score = SetMax({0} \cup F1Counted)
    /\ best_val_loss = (IF LossCounted = {} THEN Inf ELSE SetMin(LossCounted))

C2_Step ==
    /\ best_f1_score' >= best_f1_score
    /\ best_val_loss' <= best_val_loss
    /\ (best_val_loss' # best_val_loss) => (pc = "val" /\ vidx = NumValBatches)
    /\ (best_f1_score' # best_f1_score) => pc = "best"

\* C2: after every epoch the running best F1 is max(0, F1 so far) and
\* best_val_loss is the minimum validation loss so far (+inf before the first);
\* neither ever moves the wrong way, and they change only in the steps after
\* the validation loop, never in a training or validation batch iteration.
C2_BestMonotone == []C2_BestValues /\ [][C2_Step]_vars

C2_Witness ==
    /\ pc = "log"
    /\ Len(log) >= 2
    /\ epoch_f1 < best_f1_score
    /\ val_loss > best_val_loss
    /\ best_f1_score > F1Seq[1]
    /\ best_val_loss < ValLossSeq[1]

\* ------------------------------------------------ best checkpoint content

\* an epoch has ended and the next one has not reached its checkpoint step
AtEpochEnd == Len(log) >= 1 /\ pc \in {"train", "val", "best", "done"}

\* the model parameters at the end of epoch k (from 0): every training batch
\* of the epochs 0..k has been applied
ParamsAtEndOf(k) == (k + 1) * NumTrainBatches

\* the earliest epoch (from 0) whose F1 is the maximum of the finished epochs
EarliestBestEpoch ==
    (CHOOSE k \in 1..Len(log) :
        /\ F1Seq[k] = SeqMax(F1Seq, Len(log))
        /\ \A j \in 1..(k - 1) : F1Seq[j] < F1Seq[k]) - 1

\* C12: at the end of every epoch best.pth exists iff some epoch so far had
\* F1 > 0; it then holds the parameters of the end of the earliest epoch that
\* attains the maximum F1 so far (an equal later F1 does not replace it);
\* after an epoch that wrote best.pth, best.pth and last.pth hold the same
\* parameters; the confusion matrix is redrawn in exactly the epochs that
\* write best.pth.
C12_BestHoldsEarliestMax ==
    /\ AtEpochEnd =>
          /\ (best_pth # NoFile) <=> (\E k \in 1..Len(log) : F1Seq[k] > 0)
          /\ (best_pth # NoFile) <=> (SavedAt("best") # {})
          /\ best_pth # NoFile => best_pth = ParamsAtEndOf(EarliestBestEpoch)
          /\ last_pth = ParamsAtEndOf(Len(log) - 1)
          /\ (Len(log) - 1) \in SavedAt("best") => best_pth = last_pth
    /\ confusion = (IF SavedAt("best") = {} THEN NoFile
                    ELSE SetMax(SavedAt("best")))

\* a finished run whose maximum F1 is reached at epoch 1 and again at epoch 2:
\* best.pth keeps the parameters of epoch 1 and differs from last.pth
C12_Witness ==
    /\ pc = "done"
    /\ F1Seq = <<3, 7, 7>>
    /\ best_pth = ParamsAtEndOf(1)
    /\ last_pth = ParamsAtEndOf(2)
    /\ confusion = 1

\* ------------------------------------------------------ epoch loop claims

\* What each position of the loop has already done, counted from the start.
C10_Progress ==
    /\ epoch <= epochs
    /\ pc = "train" => /\ epoch < epochs
                       /\ idx <= NumTrainBatches
                       /\ model = epoch * NumTrainBatches + idx
                       /\ sched_steps = epoch
                       /\ Len(log) = epoch
                       /\ SavedAt("last") = 0..(epoch - 1)
    /\ pc \in {"val", "best", "last", "log"} =>
                       /\ epoch < epochs
                       /\ model = (epoch + 1) * NumTrainBatches
                       /\ sched_steps = epoch + 1
                       /\ Len(log) = epoch
    /\ pc = "val" => vidx <= NumValBatches /\ SavedAt("last") = 0..(epoch - 1)
    /\ pc \in {"best", "last"} =>
                       vidx = NumValBatches /\ SavedAt("last") = 0..(epoch - 1)
    /\ pc = "best" => SavedAt("best") \subseteq 0..(epoch - 1)
    /\ pc = "log" => SavedAt("last") = 0..epoch
    /\ pc = "done" => /\ Len(log) = epochs
                      /\ [k \in 1..Len(log) |-> log[k].epoch] = [k \in 1..epochs |-> k - 1]
                      /\ model = epochs * NumTrainBatches
                      /\ sched_steps = epochs
                      /\ SavedAt("last") = 0..(epochs - 1)
                      /\ SaveCount("last") = epochs

\* steps still to run
C10_Remaining ==
    LET perEpoch == NumTrainBatches + NumValBatches + 5
        inEpoch == CASE pc = "train" -> idx
                     [] pc = "val" -> NumTrainBatches + 1 + vidx
                     [] pc = "best" -> NumTrainBatches + NumValBatches + 2
                     [] pc = "last" -> NumTrainBatches + NumValBatches + 3
                     [] pc = "log" -> NumTrainBatches + NumValBatches + 4
                     [] OTHER -> 0
    IN IF pc = "done" THEN 0 ELSE (epochs - epoch) * perEpoch - inEpoch

C10_Order ==
    /\ C10_Remaining' = C10_Remaining - 1
    /\ pc' # pc =>
         \/ pc = "train" /\ pc' = "val"
         \/ pc = "val" /\ pc' = "best"
         \/ pc = "best" /\ pc' = "last"
         \/ pc = "last" /\ pc' = "log"
         \/ pc = "log" /\ pc' = "train" /\ epoch' = epoch + 1 /\ epoch' < epochs
         \/ pc = "log" /\ pc' = "done" /\ epoch + 1 = epochs

\* C10: a run with epochs = E executes exactly E epochs and stops, whatever
\* the metrics; every epoch is: all training batches, one scheduler step, all
\* validation batches, the best-checkpoint decision, the last checkpoint, the
\* log entry; no batch of the next epoch runs before the last checkpoint and
\* the log entry of this one are written.
C10_FixedEpochsFixedOrder ==
    /\ []C10_Progress
    /\ [](pc = "done" \/ ENABLED NextOrch)
    /\ [][C10_Order]_vars

\* a finished run of several epochs in which the F1 never improved after the
\* first epoch
C10_Witness ==
    /\ pc = "done"
    /\ epochs = 3
    /\ Len(log) = 3
    /\ F1Seq = <<7, 0, 0>>
    /\ sched_steps = 3

\* ------------------------------------------------------------ box claims

\* C6: for every W, H > 0, lam in [0,1] and centre, the box rand_bbox returns
\* has x1 = 0, x2 = W and 0 <= y1 <= y2 <= H; with lam = 1 it has zero height.
C6_BoxWithinImage ==
    bb_pc \in {"boxed", "blended"} =>
        /\ bb_box[1] = 0
        /\ bb_box[3] = bb_size[3]
        /\ 0 <= bb_box[2]
        /\ bb_box[2] <= bb_box[4]
        /\ bb_box[4] <= bb_size[4]
        /\ (bb_lam = LamDen) => (bb_box[2] = bb_box[4])

\* lam = 1 on an image of several rows and columns, centre off the border
C6_Witness ==
    /\ bb_pc = "boxed"
    /\ bb_lam = LamDen
    /\ bb_size[3] >= 2
    /\ bb_size[4] >= 2
    /\ bb_box[2] = bb_box[4]
    /\ bb_box[2] > 0

\* C7: the lam recomputed from the clipped box lies in [0,1]; for a box of
\* zero area it is 1 and the blended loss is criterion(out, target_a) alone.
C7_LamInUnitInterval ==
    bb_pc = "blended" =>
        /\ bb_lam2.den = bb_size[3] * bb_size[4]
        /\ bb_lam2.den > 0
        /\ 0 <= bb_lam2.num
        /\ bb_lam2.num <= bb_lam2.den
        /\ bb_lam2.num = bb_lam2.den - bb_size[3] * (bb_box[4] - bb_box[2])
        /\ (BoxArea(bb_box) = 0) =>
              /\ bb_lam2.num = bb_lam2.den
              /\ bb_loss = PlainLoss(bb_crit[1], bb_lam2.den)

\* a zero-area box with two different criterion values
C7_Witness ==
    /\ bb_pc = "blended"
    /\ BoxArea(bb_box) = 0
    /\ bb_crit[1] # bb_crit[2]
    /\ bb_crit[2] > 0
    /\ bb_loss.num = bb_crit[1] * bb_loss.den

\* --------------------------------------------------- batch loop claims

IsPrefix(a, b) == Len(a) <= Len(b) /\ SubSeq(b, 1, Len(a)) = a

SAMOps == <<"zero_grad", "closure", "backward", "first_step",
            "closure", "backward", "second_step">>
PlainOps == <<"zero_grad", "closure", "backward", "step">>

\* a batch has been processed and the next one has not started
BatchDone == spc \in {"start", "end", "passed"} /\ bidx > 0

ClosureCount == Cardinality({i \in 1..Len(ops) : ops[i] = "closure"})

\* C3: per batch the calls are zero_grad, closure, backward and then, under
\* SAM, first_step (gradients cleared), a second closure, backward and
\* second_step (gradients cleared) with no plain step; otherwise exactly one
\* plain step and no first_step, second_step or second closure.
C3_StepSequence ==
    /\ Len(calls) = ClosureCount
    /\ (optimizer = "SAM") =>
          /\ IsPrefix(ops, SAMOps)
          /\ BatchDone => (ops = SAMOps /\ Len(calls) = 2 /\ grad = 0)
          /\ (spc = "closureB") => (grad = 0 /\ Len(calls) = 1)
    /\ (optimizer # "SAM") =>
          /\ IsPrefix(ops, PlainOps)
          /\ BatchDone => (ops = PlainOps /\ Len(calls) = 1)

\* the last batch of a SAM pass, both phases mixed
C3_Witness ==
    /\ optimizer = "SAM"
    /\ spc = "end"
    /\ bidx = NumTrainBatches
    /\ ops = SAMOps
    /\ Len(calls) = 2
    /\ calls[1].mixed
    /\ calls[2].mixed

\* C4: after a SAM cycle the parameters are the pre-cycle parameters moved by
\* one base-optimizer update computed from the phase-B gradient alone: phase B
\* was evaluated at the perturbed point, the perturbation is gone, and the
\* phase-A gradient is not part of the update.
C4_SAMCycleDelta ==
    (optimizer = "SAM" /\ BatchDone) =>
        /\ calls[1].w = w0
        /\ calls[2].w = (w0 + Rho * Sign(GradOf(calls[1].loss))) % ParamMod
        /\ w = BaseStep(w0, GradOf(calls[2].loss))
        /\ grad = 0

\* a cycle in the second batch whose two phases saw different losses
C4_Witness ==
    /\ optimizer = "SAM"
    /\ BatchDone
    /\ bidx = 2
    /\ w0 # 0
    /\ calls[2].w # w0
    /\ calls[1].loss # calls[2].loss
    /\ w = BaseStep(w0, GradOf(calls[2].loss))
    /\ w # BaseStep(calls[2].w, GradOf(calls[2].loss))

\* C5: with beta = 0 or cutmix_prob = 0, whatever r is, every closure call
\* (phase A and phase B) returns criterion(model(inputs), labels) on the batch
\* as loaded, draws no Beta sample, permutation or box, and leaves the batch
\* tensor unchanged.
C5_NoMixWhenDisabled ==
    (spc # "idle" /\ (beta = 0 \/ cutmix_prob = 0)) =>
        /\ inputs = FreshInputs
        /\ \A i \in 1..Len(calls) :
              /\ ~calls[i].mixed
              /\ calls[i].draws = <<>>
              /\ calls[i].loss =
                    PlainLoss(Criterion(calls[i].w, FreshInputs, labels), ImgW * ImgH)

\* beta = 0 with cutmix_prob = 1 and the smallest r, both SAM phases run
C5_Witness ==
    /\ beta = 0
    /\ cutmix_prob = ProbDen
    /\ r = 0
    /\ optimizer = "SAM"
    /\ BatchDone
    /\ Len(calls) = 2
    /\ calls[1].w # calls[2].w

\* closure() taking the given branch
ClosureTakes(m) == Closure /\ calls'[Len(calls')].mixed = m

\* C9 as stated: before the second invocation both the mix and the no-mix
\* branch are open whenever 0 < cutmix_prob < 1 and beta > 0.
C9_BranchIndependent ==
    (spc = "closureB" /\ beta > 0 /\ 0 < cutmix_prob /\ cutmix_prob < ProbDen) =>
        (ENABLED ClosureTakes(TRUE) /\ ENABLED ClosureTakes(FALSE))

\* C9 amended: both invocations of one optimizer step take the same branch,
\* the one the single per-batch r selects; only the permutation and the box
\* are drawn anew by the second invocation.
C9_SameBranchFreshDraws ==
    \A i \in 1..Len(calls) :
        /\ calls[i].mixed = calls[1].mixed
        /\ calls[i].mixed <=> (beta > 0 /\ r < cutmix_prob)

\* both phases mixed, with a different permutation and a different box
C9_Witness ==
    /\ optimizer = "SAM"
    /\ beta > 0
    /\ 0 < cutmix_prob
    /\ cutmix_prob < ProbDen
    /\ Len(calls) = 2
    /\ calls[1].mixed
    /\ calls[2].mixed
    /\ calls[1].rand_index # calls[2].rand_index
    /\ calls[1].box # calls[2].box

\* --------------------------------------------------- double mixing claim

\* the batch after the closure calls recorded in cs, starting from x
RECURSIVE MixedBy(_, _, _)
MixedBy(x, cs, k) ==
    IF k = 0 THEN x
    ELSE MixInputs(MixedBy(x, cs, k - 1), cs[k].rand_index, cs[k].box)

\* in a SAM batch whose phase A mixed: phase B mixes too, with draws of its
\* own; when a call returns, the batch is the loaded batch with every mixing
\* so far applied on top of the previous one, and the returned loss blends
\* the criterion against the original labels with the criterion against the
\* permuted ones, both on the batch as that call left it.
C11_State ==
    (optimizer = "SAM" /\ Len(calls) >= 1 /\ calls[1].mixed) =>
        /\ \A i \in 1..Len(calls) :
              /\ calls[i].mixed
              /\ calls[i].draws = <<"beta", "randperm", "randint", "randint">>
        /\ labels = FreshLabels
        /\ spc \in {"backwardA", "backwardB"} =>
              /\ inputs = MixedBy(FreshInputs, calls, Len(calls))
              /\ LET c == calls[Len(calls)]
                 IN loss = BlendLoss(
                        Criterion(c.w, inputs, FreshLabels),
                        Criterion(c.w, inputs,
                                  [n \in Samples |-> FreshLabels[c.rand_index[n]]]),
                        c.lam)

\* the batch changes only when it is loaded or inside a closure call, so
\* nothing restores it between or after the calls; the running training loss
\* grows once per batch, by the loss of the last closure call of the batch
\* (phase B under SAM), and not in between
C11_Step ==
    /\ inputs' # inputs => spc \in {"start", "closureA", "closureB"}
    /\ loss' # loss => spc \in {"closureA", "closureB"}
    /\ IF bidx' = bidx + 1
         THEN /\ train_loss' = AddLoss(train_loss, calls[Len(calls)].loss)
              /\ Len(calls) = IF optimizer = "SAM" THEN 2 ELSE 1
         ELSE spc # "end" => train_loss' = train_loss

\* C11: in a SAM step where CutMix triggers, phase B takes the same branch as
\* phase A (r is drawn once per batch), the batch is mutated in place and not
\* restored, so phase B's forward pass sees the phase-A mixed batch with a
\* second, freshly drawn mixing on top while target_a is the original label
\* vector; train_loss receives the phase-B loss only, once per batch.
C11_DoubleMixing == []C11_State /\ [][C11_Step]_vars

\* a finished SAM batch mixed twice with different boxes, where
\* the batch differs from the loaded one, from the phase-B mixing applied to
\* the loaded batch alone, and the two phases' losses differ
C11_Witness ==
    /\ optimizer = "SAM"
    /\ BatchDone
    /\ Len(calls) = 2
    /\ calls[1].mixed
    /\ calls[1].box # calls[2].box
    /\ inputs # FreshInputs
    /\ inputs # MixInputs(FreshInputs, calls[2].rand_index, calls[2].box)
    /\ inputs # MixInputs(FreshInputs, calls[1].rand_index, calls[1].box)
    /\ calls[1].loss # calls[2].loss
    /\ train_loss = AddLoss(ZeroLoss, calls[2].loss)

\* ------------------------------------------------------ validation claims

\* C8: in both scripts the reported accuracy is the number of validation-set
\* samples predicted correctly over the validation-set size, and the reported
\* validation loss is the sum of the per-batch losses over the batch count.
C8_AccuracyOverValidationSet ==
    vpc = "done" =>
        /\ val_acc = [num |-> Cardinality({i \in 1..val_n : val_correct[i]}),
                      den |-> val_n]
        /\ val_mean_loss = [num |-> SeqSum(val_loss_items),
                            den |-> Len(val_loss_items)]

Init == InitOrch /\ IdleBBox /\ IdleStep /\ IdleVal

Next == NextOrch /\ UNCHANGED <<bboxVars, stepVars, valVars>>

Spec == Init /\ [][Next]_vars

\* rand_bbox and the blend, on their own
OrchAt(s, p) ==
    /\ script = s
    /\ epochs = 1
    /\ epoch = 0
    /\ pc = p
    /\ idx = 0
    /\ vidx = 0
    /\ model = 0
    /\ sched_steps = 0
    /\ epoch_f1 = 0
    /\ val_loss = 0
    /\ best_f1_score = 0
    /\ best_val_loss = Inf
    /\ best_pth = NoFile
    /\ last_pth = NoFile
    /\ confusion = NoFile
    /\ saves = <<>>
    /\ log = <<>>

InitSpecBBox == OrchAt("cutmix_sam", "train") /\ InitBBox /\ IdleStep /\ IdleVal

SpecBBox == InitSpecBBox /\ [][NextBBox]_vars

\* the training pass of epoch 0 of the CutMix + SAM script
InitSpecStep == OrchAt("cutmix_sam", "train") /\ IdleBBox /\ InitStep /\ IdleVal

SpecStep == InitSpecStep /\ [][NextStep]_vars

\* the validation pass of epoch 0 of either script
InitSpecVal ==
    /\ \E s \in Scripts : OrchAt(s, "val")
    /\ IdleBBox
    /\ IdleStep
    /\ InitVal

SpecVal == InitSpecVal /\ [][NextVal]_vars

====
